---------------------------- MODULE Spec2Model ----------------------------
(***************************************************************************)
(* A model of the duplosentido crate: the decoder of the 64-byte USB input *)
(* report of a DualSense controller (src/src/dualsense.rs), the raw-code   *)
(* conversions of src/src/mappings/state.rs, and the DualSense handle      *)
(* (bind / update / set_mode / state / drop) on top of the HIDAPI wrapper  *)
(* of src/src/hidapi.rs.                                                   *)
(*                                                                         *)
(* A Rust panic (assert!, unreachable!, unimplemented!, unwrap on Err) is  *)
(* modelled as an outcome of its own, "panic", distinct from a returned    *)
(* value.                                                                  *)
(***************************************************************************)
EXTENDS Integers, Sequences, FiniteSets, TLC

VARIABLES
    endian,     \* byte order of the build target: from_ne_bytes reads it
    overflow_checks, \* whether the build checks integer overflow (debug profile)
    arg,        \* SpecMaskShift, SpecTemperature: the input of the next call
    out,        \* SpecMaskShift, SpecTemperature: the outcome of the last call
    report,     \* SpecDecode: the [u8; 64] handed to DualSenseState::from
    decoded,    \* SpecDecode: the outcome of DualSenseState::from(report)
    phase,      \* Spec: "unbound" | "bound" | "panicked" | "dropped" | "aborted"
    state,      \* Spec: DualSense.state (Cell<DualSenseState>)
    mode,       \* Spec: DualSense.mode (Cell<Mode>)
    device,     \* Spec: the HID device: [open, nonblocking]
    library,    \* Spec: "initialized" | "finalized" (hid_exit was called)
    buffer,     \* Spec: the buffer of the last update, as hid_read left it
    bytes,      \* Spec: what hid_read returned in the last update (-1: error)
    ret,        \* Spec: what the last call returned, or the panic it raised
    ffi,        \* Spec: the calls the last handler made: HIDAPI's and the decoder's
    snapshot,   \* Spec: the caller's copy, the value the last state() returned
    stored,     \* Spec: an update has replaced the state since the last state()
    data_read,  \* Spec: an update has read data (a byte count above 0) since bind
    read_failed \* Spec: an update has returned the Update error since bind

buildVars == <<endian, overflow_checks>>

helperVars == <<arg, out>>

decodeVars == <<report, decoded>>

handleVars ==
    <<phase, state, mode, device, library, buffer, bytes, ret, ffi, snapshot, stored,
      data_read,
                   read_failed>>

vars == <<buildVars, helperVars, decodeVars, handleVars>>

-----------------------------------------------------------------------------
(* u8 arithmetic *)

U8 == 0..255

REPORT_SIZE == 64

Offsets == 0..(REPORT_SIZE - 1)

\* bit i of byte b
Bit(b, i) == (b \div (2 ^ i)) % 2

\* u8 & u8
BitAnd(a, b) ==
    Bit(a, 0) * Bit(b, 0) + 2 * Bit(a, 1) * Bit(b, 1) + 4 * Bit(a, 2) * Bit(b, 2)
    + 8 * Bit(a, 3) * Bit(b, 3) + 16 * Bit(a, 4) * Bit(b, 4) + 32 * Bit(a, 5) * Bit(b, 5)
    + 64 * Bit(a, 6) * Bit(b, 6) + 128 * Bit(a, 7) * Bit(b, 7)

\* u8::trailing_zeros: 8 for 0
trailing_zeros(m) ==
    IF m = 0 THEN 8 ELSE CHOOSE n \in 0..7 : Bit(m, n) = 1 /\ \A k \in 0..(n - 1) : Bit(m, k) = 0

\* the closure mask_shift of DualSenseState::from
mask_shift(byte, mask) == BitAnd(byte, mask) \div (2 ^ trailing_zeros(mask))

\* u16::from_ne_bytes([b0, b1]) on a target of byte order e
u16_from_ne_bytes(b0, b1, e) == IF e = "little" THEN b0 + 256 * b1 ELSE 256 * b0 + b1

\* the byte pair read as unsigned
i16_from_ne_bytes_unsigned(b0, b1, e) == u16_from_ne_bytes(b0, b1, e)

\* i16::from_ne_bytes([b0, b1]) on a target of byte order e
i16_from_ne_bytes(b0, b1, e) ==
    LET u == u16_from_ne_bytes(b0, b1, e) IN IF u >= 32768 THEN u - 65536 ELSE u

\* i8::from_ne_bytes([b])
i8_from_ne_bytes(b) == IF b >= 128 THEN b - 256 ELSE b

-----------------------------------------------------------------------------
(* panics *)

PANIC_BUTTON == "panic: Out of range for ButtonState"
PANIC_PLUGGED == "panic: Out of range for PluggedState"
PANIC_MUTED == "panic: Out of range for MutedState"
PANIC_POWER == "panic: Out of range for PowerState"
PANIC_DPAD == "panic: Out of range for DPadDirection"
PANIC_EFFECT == "panic: Out of range for BackTriggerEffect"
PANIC_STATUS == "panic: Out of range for BackTriggerStatus"
PANIC_UNREACHABLE == "panic: internal error: entered unreachable code"
PANIC_REPORT_TYPE == "panic: Report must be either of type 1 or empty"
PANIC_REPORT_SIZE == "panic: Only one type of report is currently implemented"
PANIC_UNIMPLEMENTED == "panic: not implemented"
PANIC_UNWRAP_EXIT == "panic: called Result::unwrap on an Err value: Exit"

Panics ==
    {PANIC_BUTTON, PANIC_PLUGGED, PANIC_MUTED, PANIC_POWER, PANIC_DPAD, PANIC_EFFECT,
     PANIC_STATUS, PANIC_UNREACHABLE, PANIC_REPORT_TYPE, PANIC_REPORT_SIZE,
     PANIC_UNIMPLEMENTED, PANIC_UNWRAP_EXIT}

IsPanic(v) == v \in Panics

\* the first panic raised when the values of s are computed in order
FirstPanic(s) ==
    s[CHOOSE i \in DOMAIN s : IsPanic(s[i]) /\ \A j \in 1..(i - 1) : ~IsPanic(s[j])]

-----------------------------------------------------------------------------
(* mappings/state.rs: variant -> discriminant, the value of `variant as u8`. *)
(* A variant without an explicit discriminant takes the one before it plus 1, *)
(* the first takes 0.                                                         *)

ButtonState_discriminant(v) ==
    CASE v = "Released" -> 0
      [] v = "Pressed" -> 1

PluggedState_discriminant(v) ==
    CASE v = "Unplugged" -> 0
      [] v = "Plugged" -> 1

MutedState_discriminant(v) ==
    CASE v = "Unmuted" -> 0
      [] v = "Muted" -> 1

\* PowerState as if it were declared without explicit discriminants
PowerState_discriminant_implicit(v) ==
    CASE v = "Discharging" -> 0
      [] v = "Charging" -> 1
      [] v = "Complete" -> 2
      [] v = "AbnormalVoltage" -> 3
      [] v = "AbnormalTemperature" -> 4
      [] v = "ChargingError" -> 5

PowerState_discriminant(v) ==
    CASE v = "Discharging" -> 0
      [] v = "Charging" -> 1
      [] v = "Complete" -> 2
      [] v = "AbnormalVoltage" -> 10
      [] v = "AbnormalTemperature" -> 11
      [] v = "ChargingError" -> 15

DPadDirection_discriminant(v) ==
    CASE v = "North" -> 0
      [] v = "NorthEast" -> 1
      [] v = "East" -> 2
      [] v = "SouthEast" -> 3
      [] v = "South" -> 4
      [] v = "SouthWest" -> 5
      [] v = "West" -> 6
      [] v = "NorthWest" -> 7
      [] v = "None" -> 8

BackTriggerEffect_discriminant(v) ==
    CASE v = "Off" -> 0
      [] v = "Feedback" -> 1
      [] v = "Weapon" -> 2
      [] v = "Vibration" -> 3

-----------------------------------------------------------------------------
(* mappings/state.rs: raw code -> variant *)

\* ButtonState::from with the two variants exchanged
ButtonState_from_inverted(value) ==
    IF ~(value < 2) THEN PANIC_BUTTON
    ELSE CASE value = 0 -> "Pressed"
           [] value = 1 -> "Released"
           [] OTHER -> PANIC_UNREACHABLE

ButtonState_from(value) ==
    IF ~(value < 2) THEN PANIC_BUTTON
    ELSE CASE value = 0 -> "Released"
           [] value = 1 -> "Pressed"
           [] OTHER -> PANIC_UNREACHABLE

PluggedState_from(value) ==
    IF ~(value < 2) THEN PANIC_PLUGGED
    ELSE CASE value = 0 -> "Unplugged"
           [] value = 1 -> "Plugged"
           [] OTHER -> PANIC_UNREACHABLE

MutedState_from(value) ==
    IF ~(value < 2) THEN PANIC_MUTED
    ELSE CASE value = 0 -> "Unmuted"
           [] value = 1 -> "Muted"
           [] OTHER -> PANIC_UNREACHABLE

\* PowerState::from with the codes of the two abnormal states exchanged
PowerState_from_swapped(value) ==
    IF ~(value <= 15) THEN PANIC_POWER
    ELSE CASE value = 0 -> "Discharging"
           [] value = 1 -> "Charging"
           [] value = 2 -> "Complete"
           [] value = 11 -> "AbnormalVoltage"
           [] value = 10 -> "AbnormalTemperature"
           [] value = 15 -> "ChargingError"
           [] OTHER -> PANIC_UNREACHABLE

PowerState_from(value) ==
    IF ~(value <= 15) THEN PANIC_POWER
    ELSE CASE value = 0 -> "Discharging"
           [] value = 1 -> "Charging"
           [] value = 2 -> "Complete"
           [] value = 10 -> "AbnormalVoltage"
           [] value = 11 -> "AbnormalTemperature"
           [] value = 15 -> "ChargingError"
           [] OTHER -> PANIC_UNREACHABLE

DPadDirection_from(value) ==
    IF ~(value < 9) THEN PANIC_DPAD
    ELSE CASE value = 0 -> "North"
           [] value = 1 -> "NorthEast"
           [] value = 2 -> "East"
           [] value = 3 -> "SouthEast"
           [] value = 4 -> "South"
           [] value = 5 -> "SouthWest"
           [] value = 6 -> "West"
           [] value = 7 -> "NorthWest"
           [] value = 8 -> "None"
           [] OTHER -> PANIC_UNREACHABLE

\* BackTriggerEffect::from with code 0 taken for Feedback
BackTriggerEffect_from_no_off(value) ==
    IF ~(value < 16) THEN PANIC_EFFECT
    ELSE CASE value = 0 -> "Feedback"
           [] value = 1 -> "Feedback"
           [] value = 2 -> "Weapon"
           [] value = 3 -> "Vibration"
           [] OTHER -> PANIC_UNREACHABLE

BackTriggerEffect_from(value) ==
    IF ~(value < 16) THEN PANIC_EFFECT
    ELSE CASE value = 0 -> "Off"
           [] value = 1 -> "Feedback"
           [] value = 2 -> "Weapon"
           [] value = 3 -> "Vibration"
           [] OTHER -> PANIC_UNREACHABLE

\* BackTriggerStatus::from with the Weapon arm counting its phases from 1
BackTriggerStatus_from_shifted(value, effect) ==
    IF ~(value < 3) THEN PANIC_STATUS
    ELSE CASE effect = "Off" -> "FeedbackNoLoad"
           [] effect = "Feedback" ->
                (CASE value = 0 -> "FeedbackNoLoad"
                   [] value = 1 -> "FeedbackLoadApplied"
                   [] OTHER -> PANIC_UNREACHABLE)
           [] effect = "Weapon" ->
                (CASE value = 0 -> "WeaponReady"
                   [] value = 1 -> "WeaponReady"
                   [] value = 2 -> "WeaponFiring"
                   [] OTHER -> PANIC_UNREACHABLE)
           [] effect = "Vibration" ->
                (CASE value = 0 -> "VibrationNotVibrating"
                   [] value = 1 -> "VibrationIsVibrating"
                   [] OTHER -> PANIC_UNREACHABLE)

\* From<(u8, BackTriggerEffect)>: effect is a variant, never a panic
BackTriggerStatus_from(value, effect) ==
    IF ~(value < 3) THEN PANIC_STATUS
    ELSE CASE effect = "Off" -> "FeedbackNoLoad"
           [] effect = "Feedback" ->
                (CASE value = 0 -> "FeedbackNoLoad"
                   [] value = 1 -> "FeedbackLoadApplied"
                   [] OTHER -> PANIC_UNREACHABLE)
           [] effect = "Weapon" ->
                (CASE value = 0 -> "WeaponReady"
                   [] value = 1 -> "WeaponFiring"
                   [] value = 2 -> "WeaponFired"
                   [] OTHER -> PANIC_UNREACHABLE)
           [] effect = "Vibration" ->
                (CASE value = 0 -> "VibrationNotVibrating"
                   [] value = 1 -> "VibrationIsVibrating"
                   [] OTHER -> PANIC_UNREACHABLE)

-----------------------------------------------------------------------------
(* dualsense.rs: the masks of DualSenseState::from *)

\* the mask of L3 moved onto the bit of R3
L3_MASK_shifted == 64 + 64

L3_MASK == 64
R3_MASK == 128
\* DPAD_MASK one bit too wide: it takes in the square bit of byte 8
DPAD_MASK_wide == 16 + 15

DPAD_MASK == 15
SQUARE_MASK == 16
CROSS_MASK == 32
CIRCLE_MASK == 64
TRIANGLE_MASK == 128
CREATE_MASK == 16
OPTIONS_MASK == 32
HOME_MASK == 1
MUTE_MASK == 4
TOUCHPAD_MASK == 2
INDEX_MASK == 127
TOUCHING_MASK == 128
X_MASK == 15
Y_MASK == 240
L1_MASK == 1
R1_MASK == 2
L2_MASK == 4
L2_EFFECT_MASK == 240
L2_STATUS_MASK == 240
L2_STOP_MASK == 240
R2_MASK == 8
R2_EFFECT_MASK == 15
R2_STATUS_MASK == 240
R2_STOP_MASK == 240
HEADPHONE_MASK == 1
\* the mask of the haptic filter moved onto bit 0
HAPTIC_MASK_low == 1 + 0

HAPTIC_MASK == 2
MICROPHONE_MASK == 2
MUTED_MASK == 4
EXTERNAL_MASK == 1
DATA_MASK == 8
POWER_MASK == 16
STATE_MASK == 240
PERCENT_MASK == 15

-----------------------------------------------------------------------------
(* dualsense.rs: impl From<RawInputReportUSB> for DualSenseState *)

\* one touchpad finger record, read from the four bytes starting at offset o
FingerData_at(value, o, e) ==
    [index |-> BitAnd(value[o], INDEX_MASK),
     is_touching |-> (mask_shift(value[o], TOUCHING_MASK) = 0),
     x |-> u16_from_ne_bytes(value[o + 1], BitAnd(value[o + 2], X_MASK), e),
     y |-> u16_from_ne_bytes(BitAnd(value[o + 2], Y_MASK), value[o + 3], e)]

\* one back trigger: the button bit, the axis byte, the effect nibble of byte 48
\* and the status/stop nibble of the trigger's own status byte
BackTriggerState_at(value, button_mask, axis_at, effect_mask, status_at, status_mask, stop_mask) ==
    LET button == ButtonState_from(mask_shift(value[9], button_mask))
        effect == IF IsPanic(button) THEN button
                  ELSE BackTriggerEffect_from(mask_shift(value[48], effect_mask))
        status == IF IsPanic(effect) THEN effect
                  ELSE BackTriggerStatus_from(mask_shift(value[status_at], status_mask), effect)
    IN  [state |-> button,
         axis |-> value[axis_at],
         effect |-> effect,
         status |-> status,
         stop |-> mask_shift(value[status_at], stop_mask)]

\* the struct built at the end of DualSenseState::from, field by field
DualSenseState_fields(value, e) ==
    [sticks |->
        [left |-> [state |-> ButtonState_from(mask_shift(value[9], L3_MASK)),
                   position |-> [x |-> value[1], y |-> value[2]]],
         right |-> [state |-> ButtonState_from(mask_shift(value[9], R3_MASK)),
                    position |-> [x |-> value[3], y |-> value[4]]]],
     directional_pad |-> DPadDirection_from(mask_shift(value[8], DPAD_MASK)),
     action_buttons |->
        [square |-> ButtonState_from(mask_shift(value[8], SQUARE_MASK)),
         cross |-> ButtonState_from(mask_shift(value[8], CROSS_MASK)),
         circle |-> ButtonState_from(mask_shift(value[8], CIRCLE_MASK)),
         triangle |-> ButtonState_from(mask_shift(value[8], TRIANGLE_MASK))],
     menus |->
        [create |-> ButtonState_from(mask_shift(value[9], CREATE_MASK)),
         options |-> ButtonState_from(mask_shift(value[9], OPTIONS_MASK)),
         home |-> ButtonState_from(mask_shift(value[10], HOME_MASK)),
         mute |-> ButtonState_from(mask_shift(value[10], MUTE_MASK))],
     touchpad |->
        [state |-> ButtonState_from(mask_shift(value[10], TOUCHPAD_MASK)),
         finger |-> <<FingerData_at(value, 33, e), FingerData_at(value, 37, e)>>,
         timestamp |-> value[41]],
     front_triggers |->
        [l1 |-> ButtonState_from(mask_shift(value[9], L1_MASK)),
         r1 |-> ButtonState_from(mask_shift(value[9], R1_MASK))],
     back_triggers |->
        [l2 |-> BackTriggerState_at(value, L2_MASK, 5, L2_EFFECT_MASK, 43,
                                    L2_STATUS_MASK, L2_STOP_MASK),
         r2 |-> BackTriggerState_at(value, R2_MASK, 6, R2_EFFECT_MASK, 42,
                                    R2_STATUS_MASK, R2_STOP_MASK)],
     angular_velocity |->
        [x |-> i16_from_ne_bytes(value[16], value[17], e),
         y |-> i16_from_ne_bytes(value[20], value[21], e),
         z |-> i16_from_ne_bytes(value[18], value[19], e)],
     acceleration |->
        [x |-> i16_from_ne_bytes(value[22], value[23], e),
         y |-> i16_from_ne_bytes(value[24], value[25], e),
         z |-> i16_from_ne_bytes(value[26], value[27], e)],
     plugged |->
        [headphone |-> PluggedState_from(mask_shift(value[54], HEADPHONE_MASK)),
         microphone |->
            [state |-> PluggedState_from(mask_shift(value[54], MICROPHONE_MASK)),
             muted |-> MutedState_from(mask_shift(value[54], MUTED_MASK)),
             external |-> (mask_shift(value[55], EXTERNAL_MASK) # 0)],
         usb |-> [data |-> PluggedState_from(mask_shift(value[54], DATA_MASK)),
                  power |-> PluggedState_from(mask_shift(value[54], POWER_MASK))],
         haptic_low_pass_filter |-> PluggedState_from(mask_shift(value[55], HAPTIC_MASK))],
     temperature |-> [unit |-> "Celsius", t |-> i8_from_ne_bytes(value[32])],
     power |->
        [state |-> PowerState_from(mask_shift(value[53], STATE_MASK)),
         percent |-> mask_shift(value[53], PERCENT_MASK)]]

\* the conversions of DualSenseState::from that can panic, in the order the
\* function body runs them
ConversionOrder(s) ==
    <<s.sticks.left.state, s.sticks.right.state, s.directional_pad,
      s.action_buttons.square, s.action_buttons.cross, s.action_buttons.circle,
      s.action_buttons.triangle, s.menus.create, s.menus.options, s.menus.home,
      s.menus.mute, s.touchpad.state, s.front_triggers.l1, s.front_triggers.r1,
      s.back_triggers.l2.state, s.back_triggers.l2.effect, s.back_triggers.l2.status,
      s.back_triggers.r2.state, s.back_triggers.r2.effect, s.back_triggers.r2.status,
      s.plugged.headphone, s.plugged.microphone.state, s.plugged.microphone.muted,
      s.plugged.usb.data, s.plugged.usb.power, s.plugged.haptic_low_pass_filter,
      s.power.state>>

\* an outcome of a call: a returned value, or a panic
Returned(v) == [kind |-> "returned", value |-> v]

Panicked(m) == [kind |-> "panic", msg |-> m]

\* DualSenseState::from(RawInputReportUSB::new(value)) on a target of byte order e
DualSenseState_from(value, e) ==
    IF ~(value[0] = 1 \/ value[0] = 0) THEN Panicked(PANIC_REPORT_TYPE)
    ELSE LET s == DualSenseState_fields(value, e)
             order == ConversionOrder(s)
         IN  IF \E i \in DOMAIN order : IsPanic(order[i])
             THEN Panicked(FirstPanic(order))
             ELSE Returned(s)

-----------------------------------------------------------------------------
(* integer and f32 arithmetic of the build *)

PANIC_SHR_OVERFLOW == "panic: attempt to shift right with overflow"
PANIC_ADD_OVERFLOW == "panic: attempt to add with overflow"
PANIC_SUB_OVERFLOW == "panic: attempt to subtract with overflow"

\* the result v of an unsigned w-bit +, -: outside the type it panics in a build
\* with overflow checks and wraps in a build without
overflowing(v, w, checks, msg) ==
    IF v \in 0..(2 ^ w - 1) THEN Returned(v)
    ELSE IF checks THEN Panicked(msg)
    ELSE Returned(v % (2 ^ w))

\* the closure mask_shift as the build computes it: a shift of a u8 by 8 (the
\* trailing_zeros of mask 0) overflows; without overflow checks the shift
\* amount is taken modulo 8
mask_shift_in_build(byte, mask, checks) ==
    LET masked == BitAnd(byte, mask)
        n == trailing_zeros(mask)
    IN  IF n < 8 THEN Returned(masked \div (2 ^ n))
        ELSE IF checks THEN Panicked(PANIC_SHR_OVERFLOW)
        ELSE Returned(masked \div (2 ^ (n % 8)))

\* `f as T` from f32 to an integer type lo..hi, on the truncated value v
saturating_cast(v, lo, hi) == IF v < lo THEN lo ELSE IF v > hi THEN hi ELSE v

\* `v as i8` from u16: the low 8 bits, two's complement
u16_as_i8(v) == i8_from_ne_bytes(v % 256)

\* p / q rounded to the nearest integer, ties to even
round_half_even(p, q) ==
    LET f == p \div q
        r == p % q
    IN  IF 2 * r < q THEN f
        ELSE IF 2 * r > q THEN f + 1
        ELSE IF f % 2 = 0 THEN f ELSE f + 1

\* the f32 nearest to 9.0 / 5.0 is F32_NINE_FIFTHS / F32_NINE_FIFTHS_SCALE
F32_NINE_FIFTHS == 7549747

F32_NINE_FIFTHS_SCALE == 2 ^ 22

\* the f32 273.15 is F32_KELVIN / F32_KELVIN_SCALE
F32_KELVIN == 8950579

F32_KELVIN_SCALE == 2 ^ 15

\* (n as f32 * (9.0 / 5.0)) as u8. A negative product saturates to 0 and a
\* product above 255 (n >= 143) to 255; in between the exact product is rounded
\* to the 24-bit significand of f32 and truncated
nine_fifths_as_u8(n) ==
    IF n <= 0 THEN 0
    ELSE IF n >= 143 THEN 255
    ELSE LET p == n * F32_NINE_FIFTHS
             e == CHOOSE k \in 0..7 :
                    /\ 2 ^ k <= p \div F32_NINE_FIFTHS_SCALE
                    /\ p \div F32_NINE_FIFTHS_SCALE < 2 ^ (k + 1)
             ulp == IF e = 0 THEN 1 ELSE 2 ^ (e - 1)
             product == round_half_even(p, ulp) * ulp
         IN  saturating_cast(product \div F32_NINE_FIFTHS_SCALE, 0, 255)

\* (n as f32 * 5.0 / 9.0) truncated, for n >= 0: n * 5 is exact in f32 and the
\* rounded quotient has the integer part of the exact one
five_ninths_trunc(n) == (n * 5) \div 9

\* (t as f32 + 273.15) truncated, for an i8 t: the sum is exact in f32
plus_kelvin_trunc(t) == (t * F32_KELVIN_SCALE + F32_KELVIN) \div F32_KELVIN_SCALE

-----------------------------------------------------------------------------
(* mappings/state.rs: the conversions of TemperatureState *)

Celsius(t) == [unit |-> "Celsius", t |-> t]

Fahrenheit(t) == [unit |-> "Fahrenheit", t |-> t]

Kelvin(t) == [unit |-> "Kelvin", t |-> t]

\* TemperatureState::as_celcius
as_celcius(s, checks) ==
    CASE s.unit = "Celsius" -> Returned(Celsius(s.t))
      [] s.unit = "Fahrenheit" ->
            LET d == overflowing(s.t - 32, 8, checks, PANIC_SUB_OVERFLOW)
            IN  IF d.kind = "panic" THEN d
                ELSE Returned(Celsius(saturating_cast(five_ninths_trunc(d.value), -128, 127)))
      [] s.unit = "Kelvin" ->
            LET d == overflowing(s.t - 273, 16, checks, PANIC_SUB_OVERFLOW)
            IN  IF d.kind = "panic" THEN d
                ELSE Returned(Celsius(u16_as_i8(d.value)))

\* TemperatureState::as_fahrenheit
as_fahrenheit(s, checks) ==
    CASE s.unit = "Celsius" ->
            LET sum == overflowing(nine_fifths_as_u8(s.t) + 32, 8, checks, PANIC_ADD_OVERFLOW)
            IN  IF sum.kind = "panic" THEN sum ELSE Returned(Fahrenheit(sum.value))
      [] s.unit = "Fahrenheit" -> Returned(Fahrenheit(s.t))
      [] s.unit = "Kelvin" ->
            LET d == overflowing(s.t - 273, 16, checks, PANIC_SUB_OVERFLOW)
                sum == overflowing(nine_fifths_as_u8(d.value) + 32, 8, checks,
                                   PANIC_ADD_OVERFLOW)
            IN  IF d.kind = "panic" THEN d
                ELSE IF sum.kind = "panic" THEN sum
                ELSE Returned(Fahrenheit(sum.value))

\* TemperatureState::as_kelvin
as_kelvin(s, checks) ==
    CASE s.unit = "Celsius" ->
            Returned(Kelvin(saturating_cast(plus_kelvin_trunc(s.t), 0, 65535)))
      [] s.unit = "Fahrenheit" ->
            LET d == overflowing(s.t - 32, 8, checks, PANIC_SUB_OVERFLOW)
                k == overflowing(saturating_cast(five_ninths_trunc(d.value), 0, 65535) - 273,
                                 16, checks, PANIC_SUB_OVERFLOW)
            IN  IF d.kind = "panic" THEN d
                ELSE IF k.kind = "panic" THEN k
                ELSE Returned(Kelvin(k.value))
      [] s.unit = "Kelvin" -> Returned(Kelvin(s.t))

-----------------------------------------------------------------------------
(* the reports the model feeds to the decoder *)

Endians == {"little", "big"}

\* [0_u8; 64]
ZeroReport == [i \in Offsets |-> 0]

\* a report of type 0x01 as an idle, charged, wired controller sends it:
\* sticks centred, D-Pad raw 8, no finger on the touchpad, USB data and power
TypicalReport ==
    [i \in Offsets |->
        CASE i = 0 -> 1
          [] i \in 1..4 -> 128
          [] i = 7 -> 42
          [] i = 8 -> 8
          [] i = 16 -> 3
          [] i = 21 -> 255
          [] i = 23 -> 32
          [] i = 32 -> 27
          [] i \in {33, 37} -> 128
          [] i = 53 -> 41
          [] i = 54 -> 24
          [] OTHER -> 0]

BaseReports == {ZeroReport, TypicalReport}

\* a base report with any one byte replaced by any value
PatchedReports == {[b EXCEPT ![i] = v] : b \in BaseReports, i \in Offsets, v \in U8}

\* the largest raw code of a back-trigger effect nibble used in combination with
\* status nibbles: the four effects 0..3 and the reserved codes up to this one
MaxEffectSample == 4

EffectSamples == 0..MaxEffectSample

Nibbles == 0..15

\* a base report with both effect nibbles (byte 48) and both status nibbles
\* (high nibbles of bytes 43 and 42) replaced
TriggerReports ==
    {[b EXCEPT ![48] = 16 * el + er, ![43] = 16 * sl + 5, ![42] = 16 * sr + 10] :
        b \in BaseReports, el \in EffectSamples, er \in EffectSamples,
        sl \in Nibbles, sr \in Nibbles}

Reports == PatchedReports \cup TriggerReports

-----------------------------------------------------------------------------
(* values of the handle's variables *)

NotCalled == [call |-> "none", kind |-> "none", bytes |-> 0, err |-> "", msg |-> ""]

Ok(call, n) == [call |-> call, kind |-> "ok", bytes |-> n, err |-> "", msg |-> ""]

Err(call, e) == [call |-> call, kind |-> "err", bytes |-> 0, err |-> e, msg |-> ""]

Panic(call, m) == [call |-> call, kind |-> "panic", bytes |-> 0, err |-> "", msg |-> m]

\* impl From<hidapi::Error> for Error
\* Error::from with a failed read reported as a failed bind
Error_from_read_as_bind(value) ==
    CASE value = "Open" -> "Bind"
      [] value = "Mode" -> "Mode"
      [] value = "Read" -> "Bind"
      [] value = "Exit" -> "Exit"

Error_from(value) ==
    CASE value = "Open" -> "Bind"
      [] value = "Mode" -> "Mode"
      [] value = "Read" -> "Update"
      [] value = "Exit" -> "Exit"

\* Mode as c_int with the two discriminants exchanged
Mode_as_c_int_swapped(m) == IF m = "Blocking" THEN 1 ELSE 0

\* Mode as c_int
Mode_as_c_int(m) == IF m = "Blocking" THEN 0 ELSE 1

Modes == {"Blocking", "NonBlocking"}

NoState == [none |-> TRUE]

NoDevice == [open |-> FALSE, nonblocking |-> 0]

NotDecoded == [kind |-> "none"]

NoArg == [none |-> TRUE]

-----------------------------------------------------------------------------
(* SpecDecode: DualSenseState::from as a function of one report *)

\* the handle before DualSense::bind
InitHandle ==
    /\ phase = "unbound"
    /\ state = NoState
    /\ mode = "none"
    /\ device = NoDevice
    /\ library = "initialized"
    /\ buffer = ZeroReport
    /\ bytes = 0
    /\ ret = NotCalled
    /\ ffi = <<>>
    /\ snapshot = NoState
    /\ stored = FALSE
    /\ data_read = FALSE
    /\ read_failed = FALSE

\* no helper called
InitHelper == arg = NoArg /\ out = NotDecoded

InitDecode ==
    /\ endian \in Endians
    /\ overflow_checks = FALSE
    /\ report \in Reports
    /\ decoded = NotDecoded
    /\ InitHelper
    /\ InitHandle

Decode ==
    /\ decoded = NotDecoded
    /\ decoded' = DualSenseState_from(report, endian)
    /\ UNCHANGED <<buildVars, helperVars, report, handleVars>>

NextDecode == Decode

SpecDecode == InitDecode /\ [][NextDecode]_vars

-----------------------------------------------------------------------------
(* SpecMaskShift: the closure mask_shift on every byte and mask, in both builds *)

\* the outcome r of the call of the named function
Called(name, r) == ("call" :> name) @@ r

InitMaskShift ==
    /\ endian = "little"
    /\ overflow_checks \in BOOLEAN
    /\ report = ZeroReport
    /\ decoded = NotDecoded
    /\ arg \in [byte : U8, mask : U8]
    /\ out = NotDecoded
    /\ InitHandle

MaskShift ==
    /\ out = NotDecoded
    /\ out' = Called("mask_shift", mask_shift_in_build(arg.byte, arg.mask, overflow_checks))
    /\ UNCHANGED <<buildVars, arg, decodeVars, handleVars>>

NextMaskShift == MaskShift

SpecMaskShift == InitMaskShift /\ [][NextMaskShift]_vars

-----------------------------------------------------------------------------
(* SpecTemperature: the temperature of a decoded report, converted between   *)
(* units in both builds                                                       *)

\* the reports that differ from the zero report in the temperature byte
TemperatureReports == {[ZeroReport EXCEPT ![32] = b] : b \in U8}

InitTemperature ==
    /\ endian \in Endians
    /\ overflow_checks \in BOOLEAN
    /\ report \in TemperatureReports
    /\ decoded = NotDecoded
    /\ arg = DualSenseState_from(report, endian).value.temperature
    /\ out = NotDecoded
    /\ InitHandle

AsCelsius ==
    /\ out = NotDecoded
    /\ out' = Called("as_celcius", as_celcius(arg, overflow_checks))
    /\ UNCHANGED <<buildVars, arg, decodeVars, handleVars>>

AsFahrenheit ==
    /\ out = NotDecoded
    /\ out' = Called("as_fahrenheit", as_fahrenheit(arg, overflow_checks))
    /\ UNCHANGED <<buildVars, arg, decodeVars, handleVars>>

AsKelvin ==
    /\ out = NotDecoded
    /\ out' = Called("as_kelvin", as_kelvin(arg, overflow_checks))
    /\ UNCHANGED <<buildVars, arg, decodeVars, handleVars>>

\* the caller goes on with the converted value: let t = t.as_...()
Rebind ==
    /\ out # NotDecoded
    /\ out.kind = "returned"
    /\ arg' = out.value
    /\ out' = NotDecoded
    /\ UNCHANGED <<buildVars, decodeVars, handleVars>>

NextTemperature == AsCelsius \/ AsFahrenheit \/ AsKelvin \/ Rebind

SpecTemperature == InitTemperature /\ [][NextTemperature]_vars

-----------------------------------------------------------------------------
(* Spec: the DualSense handle over the HIDAPI device *)

\* single-byte changes of TypicalReport the device may send
DevicePatches ==
    {<<0, 1>>, <<0, 0>>, <<0, 2>>, <<8, 0>>, <<8, 9>>, <<48, 33>>, <<53, 48>>, <<5, 200>>,
     <<16, 16>>, <<32, 200>>}

\* the input reports the device may have pending
DeviceReports ==
    {[TypicalReport EXCEPT ![p[1]] = p[2]] : p \in DevicePatches} \cup {ZeroReport}

\* the byte counts of a read that delivers data (a whole report, or a shorter one)
ReadSizes == {1, 63, REPORT_SIZE}

\* hid_read(device, buf, 64) on a zeroed buf: the set of <<return value, buf after>>.
\* -1 is an error; 0 is "no packet available" and only a non-blocking handle gives it
hid_read(dev) ==
    {<<-1, ZeroReport>>}
    \cup (IF dev.nonblocking = 1 THEN {<<0, ZeroReport>>} ELSE {})
    \cup {<<n, [i \in Offsets |-> IF i < n THEN r[i] ELSE 0]>> :
            n \in ReadSizes, r \in DeviceReports}

Init ==
    /\ endian \in Endians
    /\ overflow_checks = FALSE
    /\ report = ZeroReport
    /\ decoded = NotDecoded
    /\ InitHelper
    /\ InitHandle

\* DualSense::bind: hid_open, then hid_set_nonblocking(Blocking), then the state of
\* the all-zero report. An early return or a panic drops the DeviceWrapper (hid_close)
Bind ==
    /\ phase = "unbound"
    /\ \E opened \in BOOLEAN, set_rc \in {0, -1} :
        IF ~opened
        THEN /\ ret' = Err("bind", Error_from("Open"))
             /\ ffi' = <<"hid_open">>
             /\ UNCHANGED <<phase, state, mode, device>>
        ELSE IF set_rc = -1
        THEN /\ ret' = Err("bind", Error_from("Mode"))
             /\ ffi' = <<"hid_open", "hid_set_nonblocking", "hid_close">>
             /\ UNCHANGED <<phase, state, mode, device>>
        ELSE LET d == DualSenseState_from(ZeroReport, endian)
             IN  IF d.kind = "panic"
                 THEN /\ ret' = Panic("bind", d.msg)
                      /\ ffi' = <<"hid_open", "hid_set_nonblocking", "DualSenseState::from",
                                  "hid_close">>
                      /\ phase' = "aborted"
                      /\ UNCHANGED <<state, mode, device>>
                 ELSE /\ ret' = Ok("bind", 0)
                      /\ ffi' = <<"hid_open", "hid_set_nonblocking", "DualSenseState::from">>
                      /\ phase' = "bound"
                      /\ state' = d.value
                      /\ mode' = "Blocking"
                      /\ device' = [open |-> TRUE, nonblocking |-> Mode_as_c_int("Blocking")]
    /\ UNCHANGED <<buildVars, helperVars, decodeVars, library, buffer, bytes, snapshot, stored,
                   data_read,
                   read_failed>>

\* an update that never takes the early return
read_nothing_never(n) == FALSE

\* DualSense::update, if bytes == 0: the read delivered nothing
read_nothing(n) == n = 0

\* an update that takes the placeholder type 0x00 for an input report too
report_type_implemented_or_zero(b) == b \in {0, 1}

\* DualSense::update, match buffer[0]: only the report of type 0x01 is implemented
report_type_implemented(b) == b = 1

\* a replace that keeps the stick positions the cell held
Cell_replace_keeps_sticks(old, new) == [new EXCEPT !.sticks = old.sticks]

\* a replace that leaves the cell as it was
Cell_replace_dropped(old, new) == old

\* Cell::replace: the value the cell holds after it
Cell_replace(old, new) == new

\* a get that returns no state
Cell_get_empty(cell) == NoState

\* Cell::get: a copy of the value the cell holds
Cell_get(cell) == cell

\* DualSense::update
Update ==
    /\ phase = "bound"
    /\ \E r \in hid_read(device) :
        LET n == r[1]
            buf == r[2]
        IN  /\ buffer' = buf
            /\ bytes' = n
            /\ data_read' = (data_read \/ n > 0)
            /\ read_failed' = (read_failed \/ n = -1)
            /\ IF n = -1
               THEN /\ ret' = Err("update", Error_from("Read"))
                    /\ ffi' = <<"hid_read">>
                    /\ UNCHANGED <<phase, state, stored>>
               ELSE IF read_nothing(n)
               THEN /\ ret' = Ok("update", n)
                    /\ ffi' = <<"hid_read">>
                    /\ UNCHANGED <<phase, state, stored>>
               ELSE IF ~(n = REPORT_SIZE)
               THEN /\ ret' = Panic("update", PANIC_REPORT_SIZE)
                    /\ ffi' = <<"hid_read">>
                    /\ phase' = "panicked"
                    /\ UNCHANGED <<state, stored>>
               ELSE IF ~report_type_implemented(buf[0])
               THEN /\ ret' = Panic("update", PANIC_UNIMPLEMENTED)
                    /\ ffi' = <<"hid_read">>
                    /\ phase' = "panicked"
                    /\ UNCHANGED <<state, stored>>
               ELSE LET d == DualSenseState_from(buf, endian)
                    IN  /\ ffi' = <<"hid_read", "DualSenseState::from">>
                        /\ IF d.kind = "panic"
                           THEN /\ ret' = Panic("update", d.msg)
                                /\ phase' = "panicked"
                                /\ UNCHANGED <<state, stored>>
                           ELSE /\ ret' = Ok("update", n)
                                /\ state' = Cell_replace(state, d.value)
                                /\ stored' = TRUE
                                /\ UNCHANGED phase
    /\ UNCHANGED <<buildVars, helperVars, decodeVars, mode, device, library, snapshot>>

\* DualSense::set_mode(m)
SetMode ==
    /\ phase = "bound"
    /\ \E m \in Modes, rc \in {0, -1} :
        /\ ffi' = <<"hid_set_nonblocking">>
        /\ IF rc = -1
           THEN /\ ret' = Err("set_mode", Error_from("Mode"))
                /\ UNCHANGED <<mode, device>>
           ELSE /\ ret' = Ok("set_mode", 0)
                /\ mode' = m
                /\ device' = [device EXCEPT !.nonblocking = Mode_as_c_int(m)]
    /\ UNCHANGED <<buildVars, helperVars, decodeVars, phase, state, library, buffer, bytes,
                   snapshot, stored, data_read,
                   read_failed>>

\* impl Drop for DualSense, then the drop of its fields: hidapi::exit().unwrap()
\* runs first, the DeviceWrapper (hid_close) is dropped after it. A panic of the
\* unwrap while another panic unwinds aborts the process before the fields drop
Drop ==
    /\ phase \in {"bound", "panicked"}
    /\ \E rc \in {0, -1} :
        /\ library' = "finalized"
        /\ IF rc = 0
           THEN /\ ret' = (IF phase = "panicked" THEN ret ELSE Ok("drop", 0))
                /\ ffi' = <<"hid_exit", "hid_close">>
                /\ device' = [device EXCEPT !.open = FALSE]
                /\ phase' = "dropped"
           ELSE IF phase = "panicked"
           THEN /\ ret' = Panic("drop", PANIC_UNWRAP_EXIT)
                /\ ffi' = <<"hid_exit">>
                /\ phase' = "aborted"
                /\ UNCHANGED device
           ELSE /\ ret' = Panic("drop", PANIC_UNWRAP_EXIT)
                /\ ffi' = <<"hid_exit", "hid_close">>
                /\ device' = [device EXCEPT !.open = FALSE]
                /\ phase' = "dropped"
    /\ UNCHANGED <<buildVars, helperVars, decodeVars, state, mode, buffer, bytes, snapshot,
                   stored, data_read,
                   read_failed>>

\* DualSense::state: the caller takes a copy of the stored state
State ==
    /\ phase = "bound"
    /\ snapshot' = Cell_get(state)
    /\ stored' = FALSE
    /\ ret' = Ok("state", 0)
    /\ ffi' = <<>>
    /\ UNCHANGED <<buildVars, helperVars, decodeVars, phase, state, mode, device, library,
                   buffer, bytes, data_read,
                   read_failed>>

Next == Bind \/ Update \/ SetMode \/ State \/ Drop

Spec == Init /\ [][Next]_vars

-----------------------------------------------------------------------------
(* The report fields and domains as the specification states them, written  *)
(* with \div and % on the raw bytes; the properties below compare the       *)
(* decoder with them.                                                       *)

HeaderAccepted(r) == r[0] \in {0, 1}

DPadNibble(r) == r[8] % 16

PowerNibble(r) == r[53] \div 16

PercentNibble(r) == r[53] % 16

L2EffectNibble(r) == r[48] \div 16

R2EffectNibble(r) == r[48] % 16

L2StatusNibble(r) == r[43] \div 16

R2StatusNibble(r) == r[42] \div 16

DPadDomain == 0..8

PowerDomain == {0, 1, 2, 10, 11, 15}

EffectDomain == 0..3

\* the status codes listed for an effect code; Off ignores the status nibble
StatusDomain(e) ==
    CASE e = 0 -> Nibbles
      [] e = 1 -> {0, 1}
      [] e = 2 -> {0, 1, 2}
      [] e = 3 -> {0, 1}
      [] OTHER -> {}

\* D-Pad raw 0..8 in compass order, clockwise from North; raw 8 is the
\* neutral position, which the crate names DPadDirection::None
Compass ==
    <<"North", "NorthEast", "East", "SouthEast", "South", "SouthWest", "West", "NorthWest",
      "None">>

PowerName(c) ==
    CASE c = 0 -> "Discharging"
      [] c = 1 -> "Charging"
      [] c = 2 -> "Complete"
      [] c = 10 -> "AbnormalVoltage"
      [] c = 11 -> "AbnormalTemperature"
      [] c = 15 -> "ChargingError"
      [] OTHER -> "invalid"

EffectName(e) ==
    CASE e = 0 -> "Off"
      [] e = 1 -> "Feedback"
      [] e = 2 -> "Weapon"
      [] e = 3 -> "Vibration"
      [] OTHER -> "invalid"

StatusName(e, st) ==
    CASE e = 0 -> "FeedbackNoLoad"
      [] e = 1 /\ st = 0 -> "FeedbackNoLoad"
      [] e = 1 /\ st = 1 -> "FeedbackLoadApplied"
      [] e = 2 /\ st = 0 -> "WeaponReady"
      [] e = 2 /\ st = 1 -> "WeaponFiring"
      [] e = 2 /\ st = 2 -> "WeaponFired"
      [] e = 3 /\ st = 0 -> "VibrationNotVibrating"
      [] e = 3 /\ st = 1 -> "VibrationIsVibrating"
      [] OTHER -> "invalid"

DPadInDomain(r) == DPadNibble(r) \in DPadDomain

PowerInDomain(r) == PowerNibble(r) \in PowerDomain

L2InDomain(r) ==
    L2EffectNibble(r) \in EffectDomain /\ L2StatusNibble(r) \in StatusDomain(L2EffectNibble(r))

R2InDomain(r) ==
    R2EffectNibble(r) \in EffectDomain /\ R2StatusNibble(r) \in StatusDomain(R2EffectNibble(r))

\* DualSenseState::from has been applied to the report
Decoded == decoded # NotDecoded

DecodeReturned == decoded.kind = "returned"

\* the outcome the specification allows besides a state: an explicit error value
DecodeFailedWithError == decoded.kind = "error"

Buttons(s) ==
    {s.sticks.left.state, s.sticks.right.state, s.action_buttons.square,
     s.action_buttons.cross, s.action_buttons.circle, s.action_buttons.triangle,
     s.menus.create, s.menus.options, s.menus.home, s.menus.mute, s.touchpad.state,
     s.front_triggers.l1, s.front_triggers.r1, s.back_triggers.l2.state,
     s.back_triggers.r2.state}

PluggedDevices(s) ==
    {s.plugged.headphone, s.plugged.microphone.state, s.plugged.usb.data,
     s.plugged.usb.power, s.plugged.haptic_low_pass_filter}

\* what the end-to-end scenario says of the all-zero report, but for the D-Pad
ZeroStateButDPad(s) ==
    /\ Buttons(s) = {"Released"}
    /\ PluggedDevices(s) = {"Unplugged"}
    /\ s.power.state = "Discharging"
    /\ s.power.percent = 0
    /\ s.sticks.left.position = [x |-> 0, y |-> 0]
    /\ s.sticks.right.position = [x |-> 0, y |-> 0]

-----------------------------------------------------------------------------
(* C1..C10 *)

\* C1 (as amended): decoding the all-zero 64-byte report succeeds, and in the
\* state every button is Released, every plugged device is Unplugged, Power is
\* Discharging at 0 percent, both stick positions are (0,0), and the D-Pad is
\* North, the direction of raw code 0.
C1_ZeroReportDecodesToNorth ==
    (Decoded /\ report = ZeroReport) =>
        /\ DecodeReturned
        /\ ZeroStateButDPad(decoded.value)
        /\ decoded.value.directional_pad = "North"

\* C1, witness: the all-zero report has been decoded to a state.
C1_Witness == Decoded /\ report = ZeroReport /\ DecodeReturned

\* C1 as stated: the all-zero report decodes to a state whose D-Pad is Neutral
\* (DPadDirection::None, no arrow pressed).
C1_Original ==
    (Decoded /\ report = ZeroReport) =>
        /\ DecodeReturned
        /\ ZeroStateButDPad(decoded.value)
        /\ decoded.value.directional_pad = "None"

\* C2: for every report whose byte 0 is 0x00 or 0x01, decode returns a state
\* or an explicit error value; it never panics.
C2_NeverPanics ==
    (Decoded /\ HeaderAccepted(report)) => (DecodeReturned \/ DecodeFailedWithError)

\* C3: an update whose read delivered 64 bytes with byte 0 not in {0x00, 0x01}
\* returns the UnsupportedReportType error to the caller (no panic).
C3_UnsupportedReportTypeReturned ==
    (ret.call = "update" /\ bytes = REPORT_SIZE /\ ~HeaderAccepted(buffer)) =>
        (ret.kind = "err" /\ ret.err = "UnsupportedReportType")

\* C4: an update whose read delivered a non-zero byte count other than 64
\* returns the WrongSize error to the caller (no panic).
C4_WrongSizeReturned ==
    (ret.call = "update" /\ bytes \notin {-1, 0, REPORT_SIZE}) =>
        (ret.kind = "err" /\ ret.err = "WrongSize")

\* C5: when the D-Pad nibble, the power nibble or a back-trigger effect nibble
\* of an accepted report is outside its documented domain, decode returns an
\* explicit error value; it neither panics nor produces a state.
C5_OutOfDomainCodeIsError ==
    (/\ Decoded
     /\ HeaderAccepted(report)
     /\ \/ ~DPadInDomain(report)
        \/ ~PowerInDomain(report)
        \/ L2EffectNibble(report) \notin EffectDomain
        \/ R2EffectNibble(report) \notin EffectDomain)
    => DecodeFailedWithError

\* C6: when a back trigger's effect is Feedback or Vibration and its status
\* nibble is 2 or more, or the effect is Weapon and the status nibble is 3 or
\* more, decode returns an explicit error value rather than panicking.
C6_StatusOutOfDomainIsError ==
    (/\ Decoded
     /\ HeaderAccepted(report)
     /\ DPadInDomain(report)
     /\ PowerInDomain(report)
     /\ L2EffectNibble(report) \in 1..3
     /\ R2EffectNibble(report) \in EffectDomain
     /\ \/ L2StatusNibble(report) \notin StatusDomain(L2EffectNibble(report))
        \/ (/\ R2EffectNibble(report) \in 1..3
            /\ R2StatusNibble(report) \notin StatusDomain(R2EffectNibble(report))))
    => DecodeFailedWithError

\* C7: when a back trigger's effect is Off, its decoded status is
\* FeedbackNoLoad for each of the 16 values of its status nibble: whatever the
\* nibble, the report (valid in its other fields) decodes to a state.
C7_OffIgnoresStatusNibble ==
    (/\ Decoded
     /\ HeaderAccepted(report)
     /\ DPadInDomain(report)
     /\ PowerInDomain(report)
     /\ L2InDomain(report)
     /\ R2InDomain(report)
     /\ (L2EffectNibble(report) = 0 \/ R2EffectNibble(report) = 0))
    => /\ DecodeReturned
       /\ L2EffectNibble(report) = 0 =>
            decoded.value.back_triggers.l2.status = "FeedbackNoLoad"
       /\ R2EffectNibble(report) = 0 =>
            decoded.value.back_triggers.r2.status = "FeedbackNoLoad"

\* the effect and status nibbles are a pair the conversion lists, Off taken
\* with the status codes 0..2 that BackTriggerStatus::from lets through
ListedPair(e, st) == e \in EffectDomain /\ st \in StatusDomain(e) /\ st < 3

C9_DPadFromLowNibble ==
    Decoded =>
        /\ DecodeReturned =>
            /\ DPadInDomain(report)
            /\ decoded.value.directional_pad = Compass[DPadNibble(report) + 1]
        /\ (/\ HeaderAccepted(report)
            /\ DPadInDomain(report)
            /\ PowerInDomain(report)
            /\ ListedPair(L2EffectNibble(report), L2StatusNibble(report))
            /\ ListedPair(R2EffectNibble(report), R2StatusNibble(report)))
           => DecodeReturned

\* C9, witness: a report whose byte 8 has a non-zero high nibble and raw
\* D-Pad code 8 was decoded to the neutral position.
C9_Witness ==
    /\ Decoded
    /\ DecodeReturned
    /\ report[8] \div 16 # 0
    /\ DPadNibble(report) = 8
    /\ decoded.value.directional_pad = "None"

\* C10: the power state is decoded from the high nibble of byte 53 (0x0
\* Discharging, 0x1 Charging, 0x2 Complete, 0xA AbnormalVoltage, 0xB
\* AbnormalTemperature, 0xF ChargingError) and the battery percent is the low
\* nibble of byte 53, so it is always in 0..15.
C10_PowerFromByte53 ==
    Decoded =>
        /\ DecodeReturned =>
            /\ PowerInDomain(report)
            /\ decoded.value.power.state = PowerName(PowerNibble(report))
            /\ decoded.value.power.percent = PercentNibble(report)
            /\ decoded.value.power.percent \in 0..15
        /\ (/\ HeaderAccepted(report)
            /\ DPadInDomain(report)
            /\ PowerInDomain(report)
            /\ ListedPair(L2EffectNibble(report), L2StatusNibble(report))
            /\ ListedPair(R2EffectNibble(report), R2StatusNibble(report)))
           => DecodeReturned

\* C10, witness: a report with power nibble 0xB and percent nibble 0xF was
\* decoded to AbnormalTemperature at 15.
C10_Witness ==
    /\ Decoded
    /\ DecodeReturned
    /\ PowerNibble(report) = 11
    /\ PercentNibble(report) = 15
    /\ decoded.value.power.state = "AbnormalTemperature"
    /\ decoded.value.power.percent = 15

\* the two's-complement signed 16-bit value of a byte pair assembled little-endian
SignedLittleEndian(low, high) ==
    LET u == low + 256 * high
    IN  IF u >= 32768 THEN u - 65536 ELSE u

\* C11: each of the six motion components is the two's-complement signed
\* 16-bit value of its byte pair assembled little-endian, whatever the host
\* byte order (angular velocity x, z, y at bytes 16, 18, 20; acceleration
\* x, y, z at bytes 22, 24, 26).
C11_MotionIsLittleEndian ==
    (Decoded /\ DecodeReturned) =>
        /\ decoded.value.angular_velocity.x = SignedLittleEndian(report[16], report[17])
        /\ decoded.value.angular_velocity.z = SignedLittleEndian(report[18], report[19])
        /\ decoded.value.angular_velocity.y = SignedLittleEndian(report[20], report[21])
        /\ decoded.value.acceleration.x = SignedLittleEndian(report[22], report[23])
        /\ decoded.value.acceleration.y = SignedLittleEndian(report[24], report[25])
        /\ decoded.value.acceleration.z = SignedLittleEndian(report[26], report[27])

\* C13: the x and y of both touchpad finger records are 12-bit values.
C13_FingerCoordinatesAre12Bit ==
    (Decoded /\ DecodeReturned) =>
        \A i \in 1..2 :
            /\ decoded.value.touchpad.finger[i].x \in 0..4095
            /\ decoded.value.touchpad.finger[i].y \in 0..4095

\* C16: a back trigger's button state is Released when its axis is 0 and
\* Pressed when its axis is above 0.
C16_BackTriggerButtonFollowsAxis ==
    (Decoded /\ DecodeReturned) =>
        /\ decoded.value.back_triggers.l2.state
             = (IF decoded.value.back_triggers.l2.axis = 0 THEN "Released" ELSE "Pressed")
        /\ decoded.value.back_triggers.r2.state
             = (IF decoded.value.back_triggers.r2.axis = 0 THEN "Released" ELSE "Pressed")

\* the raw codes each conversion maps to a variant
ButtonDomain == {0, 1}

\* C15: enumeration round trip. For every raw code in the domain of
\* ButtonState, PluggedState, MutedState, DPadDirection, BackTriggerEffect
\* and PowerState, the discriminant of the variant the code converts to is
\* the code, and distinct codes convert to distinct variants; so the
\* discriminant of every such field of a decoded state is the raw code the
\* report holds for it.
C15_EnumRoundTrip ==
    /\ \A c \in ButtonDomain :
         /\ ButtonState_discriminant(ButtonState_from(c)) = c
         /\ PluggedState_discriminant(PluggedState_from(c)) = c
         /\ MutedState_discriminant(MutedState_from(c)) = c
    /\ \A c \in DPadDomain : DPadDirection_discriminant(DPadDirection_from(c)) = c
    /\ \A c \in EffectDomain : BackTriggerEffect_discriminant(BackTriggerEffect_from(c)) = c
    /\ \A c \in PowerDomain : PowerState_discriminant(PowerState_from(c)) = c
    /\ \A c, d \in ButtonDomain :
         /\ ButtonState_from(c) = ButtonState_from(d) => c = d
         /\ PluggedState_from(c) = PluggedState_from(d) => c = d
         /\ MutedState_from(c) = MutedState_from(d) => c = d
    /\ \A c, d \in DPadDomain : DPadDirection_from(c) = DPadDirection_from(d) => c = d
    /\ \A c, d \in EffectDomain :
         BackTriggerEffect_from(c) = BackTriggerEffect_from(d) => c = d
    /\ \A c, d \in PowerDomain : PowerState_from(c) = PowerState_from(d) => c = d
    /\ (Decoded /\ DecodeReturned) =>
         /\ DPadDirection_discriminant(decoded.value.directional_pad) = DPadNibble(report)
         /\ PowerState_discriminant(decoded.value.power.state) = PowerNibble(report)
         /\ BackTriggerEffect_discriminant(decoded.value.back_triggers.l2.effect)
              = L2EffectNibble(report)
         /\ BackTriggerEffect_discriminant(decoded.value.back_triggers.r2.effect)
              = R2EffectNibble(report)
         /\ ButtonState_discriminant(decoded.value.action_buttons.square)
              = Bit(report[8], 4)
         /\ PluggedState_discriminant(decoded.value.plugged.headphone) = Bit(report[54], 0)
         /\ MutedState_discriminant(decoded.value.plugged.microphone.muted)
              = Bit(report[54], 2)

\* C15, witness: a report with power code 0xA, D-Pad code 8, the square
\* bit set and the muted bit clear was decoded, and the discriminants of
\* the decoded variants are those codes.
C15_Witness ==
    /\ Decoded
    /\ DecodeReturned
    /\ PowerNibble(report) = 10
    /\ decoded.value.power.state = "AbnormalVoltage"
    /\ PowerState_discriminant(decoded.value.power.state) = 10
    /\ DPadNibble(report) = 8
    /\ DPadDirection_discriminant(decoded.value.directional_pad) = 8
    /\ decoded.value.plugged.usb.power = "Plugged"
    /\ PluggedState_discriminant(decoded.value.plugged.usb.power) = 1

\* x / y truncated toward zero, for y > 0
TruncDiv(x, y) == IF x >= 0 THEN x \div y ELSE -((-x) \div y)

ReceiverIsDecoded == arg = Celsius(i8_from_ne_bytes(report[32]))

\* C14: the temperature is decoded from byte 32 as a signed 8-bit Celsius
\* value t; as_fahrenheit returns Fahrenheit of t*9/5 + 32 truncated toward
\* zero and as_kelvin returns Kelvin of t + 273.15 truncated toward zero,
\* without overflow, wrapping or saturation.
C14_TemperatureConversions ==
    (ReceiverIsDecoded /\ out # NotDecoded) =>
        /\ out.call = "as_fahrenheit" =>
             /\ out.kind = "returned"
             /\ out.value = Fahrenheit(TruncDiv(arg.t * 9 + 160, 5))
        /\ out.call = "as_kelvin" =>
             /\ out.kind = "returned"
             /\ out.value = Kelvin(arg.t + 273)

\* the step is a call of update / of state() on the bound handle
UpdateStep == phase = "bound" /\ ret'.call = "update"

StateStep == phase = "bound" /\ ret'.call = "state"

\* the state bind stores: the decode of the all-zero buffer
ZeroState == DualSenseState_from(ZeroReport, endian).value

\* C17: in blocking mode, whenever update returns Ok, the stored state has
\* been replaced by the decode of the buffer read in that call (the read
\* delivered a whole report: no other byte count returns Ok).
C17_BlockingOkMeansUpdated ==
    (ret.call = "update" /\ ret.kind = "ok" /\ mode = "Blocking") =>
        LET d == DualSenseState_from(buffer, endian)
        IN  /\ bytes = REPORT_SIZE
            /\ ret.bytes = REPORT_SIZE
            /\ d.kind = "returned"
            /\ state = d.value

\* C17, witness: a blocking update returned Ok and the stored state is the
\* decode of the buffer it read, which is not the state bind stored.
C17_Witness ==
    /\ ret = Ok("update", REPORT_SIZE)
    /\ mode = "Blocking"
    /\ buffer # ZeroReport
    /\ state = DualSenseState_from(buffer, endian).value
    /\ state # ZeroState

\* C18: when the device read returns zero bytes, update returns Ok(0)
\* without invoking the decoder, and the stored state and the mode are what
\* they were before the call.
C18_ZeroReadLeavesState ==
    [][(UpdateStep /\ bytes' = 0) =>
        /\ ret' = Ok("update", 0)
        /\ ffi' = <<"hid_read">>
        /\ state' = state
        /\ mode' = mode]_vars

\* C18, witness: an update read zero bytes and returned Ok(0); the stored
\* state is still the one an earlier update stored.
C18_Witness ==
    /\ ret = Ok("update", 0)
    /\ bytes = 0
    /\ ffi = <<"hid_read">>
    /\ mode = "NonBlocking"
    /\ state # ZeroState
    /\ phase = "bound"

\* both back triggers of s have effect Off and status FeedbackNoLoad
TriggersOff(s) ==
    /\ s.back_triggers.l2.effect = "Off"
    /\ s.back_triggers.l2.status = "FeedbackNoLoad"
    /\ s.back_triggers.r2.effect = "Off"
    /\ s.back_triggers.r2.status = "FeedbackNoLoad"

\* C19, amended: after a successful bind and until the first update that
\* reads data, state() equals the decode of the all-zero buffer, in which
\* both back triggers have effect Off and status FeedbackNoLoad; mode() is
\* Blocking when bind returns and changes only by a set_mode that succeeds.
C19_InitialStateUntilDataRead ==
    /\ []((phase = "bound" /\ ~data_read) => (state = ZeroState /\ TriggersOff(state)))
    /\ []((ret.call = "bind" /\ ret.kind = "ok") => mode = "Blocking")
    /\ [][(phase = "bound" /\ mode' # mode) =>
            (ret'.call = "set_mode" /\ ret'.kind = "ok")]_vars

\* C19, witness: no update has read data yet, an update that read nothing
\* has returned, the state is the zero decode and the mode is no longer
\* Blocking.
C19_Witness ==
    /\ phase = "bound"
    /\ ~data_read
    /\ ret = Ok("update", 0)
    /\ state = ZeroState
    /\ TriggersOff(state)
    /\ mode = "NonBlocking"

\* C19 as stated: after a successful bind and until the first update that
\* reads data, state() equals the decode of the all-zero buffer, with both
\* back triggers Off and FeedbackNoLoad, and mode() is Blocking.
C19_Original ==
    (phase = "bound" /\ ~data_read) =>
        /\ state = ZeroState
        /\ TriggersOff(state)
        /\ mode = "Blocking"

\* C20: a value obtained from state() is an independent copy of the stored
\* state: no later update, set_mode or drop changes it, and two state()
\* calls with no successful data-reading update between them return equal
\* values.
C20_StateIsIndependentCopy ==
    [][/\ StateStep => snapshot' = state
       /\ ~StateStep => snapshot' = snapshot
       /\ (StateStep /\ snapshot # NoState /\ ~stored) => snapshot' = snapshot]_vars

\* C20, witness: after state() returned a copy, an update stored another
\* state; the copy still differs from the stored state.
C20_Witness ==
    /\ snapshot # NoState
    /\ stored
    /\ ret.call = "update"
    /\ ret.kind = "ok"
    /\ snapshot # state

\* the button state of a single bit
PressedIff(bit) == IF bit = 1 THEN "Pressed" ELSE "Released"

\* the plugged state of a single bit
PluggedIff(bit) == IF bit = 1 THEN "Plugged" ELSE "Unplugged"

\* the byte and the mask of every button the decoder converts
ButtonBits ==
    {<<8, SQUARE_MASK>>, <<8, CROSS_MASK>>, <<8, CIRCLE_MASK>>, <<8, TRIANGLE_MASK>>,
     <<9, L1_MASK>>, <<9, R1_MASK>>, <<9, L2_MASK>>, <<9, R2_MASK>>, <<9, CREATE_MASK>>,
     <<9, OPTIONS_MASK>>, <<9, L3_MASK>>, <<9, R3_MASK>>, <<10, HOME_MASK>>,
     <<10, TOUCHPAD_MASK>>, <<10, MUTE_MASK>>}

WithoutUnusedPlugBits(r) == [r EXCEPT ![54] = BitAnd(@, 31), ![55] = BitAnd(@, 3)]

\* C23: connectivity fields depend only on their own bits: byte 54 bit 0 is
\* headphone plugged, bit 1 microphone plugged, bit 2 microphone muted, bit
\* 3 USB data, bit 4 USB power; byte 55 bit 0 is the microphone external
\* flag (true iff the bit is 1), bit 1 the haptic low-pass filter; bits 5..7
\* of byte 54 and bits 2..7 of byte 55 never affect the decoded state.
C23_PluggedFollowsItsBits ==
    Decoded =>
        /\ DecodeReturned =>
            LET p == decoded.value.plugged
            IN  /\ p.headphone = PluggedIff(Bit(report[54], 0))
                /\ p.microphone.state = PluggedIff(Bit(report[54], 1))
                /\ p.microphone.muted
                     = (IF Bit(report[54], 2) = 1 THEN "Muted" ELSE "Unmuted")
                /\ p.usb.data = PluggedIff(Bit(report[54], 3))
                /\ p.usb.power = PluggedIff(Bit(report[54], 4))
                /\ p.microphone.external = (Bit(report[55], 0) = 1)
                /\ p.haptic_low_pass_filter = PluggedIff(Bit(report[55], 1))
        /\ decoded = DualSenseState_from(WithoutUnusedPlugBits(report), endian)
        /\ decoded.kind = "panic" => decoded.msg \notin {PANIC_PLUGGED, PANIC_MUTED}

\* C23, witness: a report with byte 55 = 0xFE (external bit clear, haptic
\* bit and every unused bit set) was decoded.
C23_Witness ==
    /\ Decoded
    /\ DecodeReturned
    /\ report[55] = 254
    /\ decoded.value.plugged.microphone.external = FALSE
    /\ decoded.value.plugged.haptic_low_pass_filter = "Plugged"
    /\ decoded.value.plugged.usb.data = "Plugged"
    /\ decoded.value.plugged.headphone = "Unplugged"

\* the signed 16-bit value of the byte pair at offsets o, o + 1 of the
\* report, in the byte order of the target
SignedPairAt(o) ==
    IF endian = "little" THEN SignedLittleEndian(report[o], report[o + 1])
    ELSE SignedLittleEndian(report[o + 1], report[o])

\* C28: the motion fields are taken from fixed byte pairs: angular velocity
\* X from bytes 16-17, Z from 18-19, Y from 20-21; acceleration X from bytes
\* 22-23, Y from 24-25, Z from 26-27, each from its own two bytes only; the
\* stick positions are left (byte 1, byte 2) and right (byte 3, byte 4),
\* copied unchanged as 0..255.
C28_MotionAndStickOffsets ==
    (Decoded /\ DecodeReturned) =>
        LET s == decoded.value
        IN  /\ s.angular_velocity.x = SignedPairAt(16)
            /\ s.angular_velocity.z = SignedPairAt(18)
            /\ s.angular_velocity.y = SignedPairAt(20)
            /\ s.acceleration.x = SignedPairAt(22)
            /\ s.acceleration.y = SignedPairAt(24)
            /\ s.acceleration.z = SignedPairAt(26)
            /\ s.sticks.left.position = [x |-> report[1], y |-> report[2]]
            /\ s.sticks.right.position = [x |-> report[3], y |-> report[4]]
            /\ {report[1], report[2], report[3], report[4]} \subseteq 0..255

\* C28, witness: a report with byte 21 = 0xFF (the high byte of angular
\* velocity Y on a little-endian target) and the sticks centred was decoded
\* to a negative Y, with X taken from bytes 16-17.
C28_Witness ==
    /\ Decoded
    /\ DecodeReturned
    /\ endian = "little"
    /\ report[20] = 0
    /\ report[21] = 255
    /\ report[16] = 3
    /\ decoded.value.angular_velocity.y = -256
    /\ decoded.value.angular_velocity.x = 3
    /\ decoded.value.angular_velocity.z = 0
    /\ decoded.value.sticks.left.position = [x |-> 128, y |-> 128]

\* the step is a call of set_mode on the bound handle
SetModeStep == phase = "bound" /\ ret'.call = "set_mode"

\* C21: decoding is stateless: an update that stores a state stores the
\* decode of the 64 bytes it read and of nothing else, whatever reports,
\* mode changes and failed reads came before.
C21_StoredStateIsDecodeOfBuffer ==
    [][(UpdateStep /\ ret'.kind = "ok" /\ bytes' > 0) =>
        LET d == DualSenseState_from(buffer', endian)
        IN  /\ d.kind = "returned"
            /\ state' = d.value]_vars

\* C21, witness: after another report was stored and copied, a read failed
\* and the mode was changed, an update stored the decode of its buffer.
C21_Witness ==
    /\ ret = Ok("update", REPORT_SIZE)
    /\ read_failed
    /\ mode = "NonBlocking"
    /\ snapshot \notin {NoState, ZeroState, state}
    /\ state = DualSenseState_from(buffer, endian).value

\* C24: when the device read fails, update returns the Update error (a
\* hidapi Read error maps to Update, Open to Bind, Mode to Mode, Exit to
\* Exit) and leaves the stored state and the mode unchanged; a later
\* successful update still stores the report it read.
C24_FailedReadIsRecoverable ==
    /\ [](/\ Error_from("Read") = "Update"
          /\ Error_from("Open") = "Bind"
          /\ Error_from("Mode") = "Mode"
          /\ Error_from("Exit") = "Exit")
    /\ [][(UpdateStep /\ bytes' = -1) =>
            /\ ret' = Err("update", "Update")
            /\ state' = state
            /\ mode' = mode
            /\ phase' = "bound"]_vars
    /\ [][(UpdateStep /\ read_failed /\ ret'.kind = "ok" /\ bytes' = REPORT_SIZE) =>
            state' = DualSenseState_from(buffer', endian).value]_vars

\* C24, witness: after a failed read, a blocking update has stored the
\* report it read.
C24_Witness ==
    /\ read_failed
    /\ ret = Ok("update", REPORT_SIZE)
    /\ mode = "Blocking"
    /\ state = DualSenseState_from(buffer, endian).value
    /\ state # ZeroState

\* C25: mode() is the mode most recently applied successfully to the
\* device: it is Blocking exactly when the device handle is blocking; only
\* a set_mode call changes it; a failed set_mode returns the Mode error and
\* leaves mode() and the stored state unchanged.
C25_ModeFollowsDevice ==
    /\ [](phase = "bound" =>
            /\ mode \in Modes
            /\ (mode = "Blocking") <=> (device.nonblocking = 0)
            /\ (mode = "NonBlocking") <=> (device.nonblocking = 1))
    /\ [][(SetModeStep /\ ret'.kind # "ok") =>
            /\ ret' = Err("set_mode", "Mode")
            /\ mode' = mode
            /\ device' = device
            /\ state' = state]_vars
    /\ [][(phase = "bound" /\ ~SetModeStep) => mode' = mode]_vars

\* C25, witness: after a set_mode(NonBlocking) that succeeded and an update
\* that stored a report, a set_mode failed; mode() is still NonBlocking.
C25_Witness ==
    /\ phase = "bound"
    /\ ret = Err("set_mode", "Mode")
    /\ mode = "NonBlocking"
    /\ device.nonblocking = 1
    /\ state # ZeroState

\* C26: update replaces the stored state only when the read delivered
\* exactly 64 bytes and byte 0 of the buffer is 0x01; in every other outcome
\* (zero bytes, read error, other size, other header, 0x00 included) the
\* stored state is not replaced and the decoder is not called.
C26_ReplacedOnlyByInputReport ==
    [][(UpdateStep /\ ~(bytes' = REPORT_SIZE /\ buffer'[0] = 1)) =>
        /\ state' = state
        /\ stored' = stored
        /\ ffi' = <<"hid_read">>
        /\ ret' # Ok("update", REPORT_SIZE)]_vars

\* C26, witness: an update read 64 bytes with header 0x00; it did not
\* return and the stored state is still the one bind stored.
C26_Witness ==
    /\ ret.call = "update"
    /\ ret.kind = "panic"
    /\ bytes = REPORT_SIZE
    /\ buffer[0] = 0
    /\ buffer # ZeroReport
    /\ state = ZeroState
    /\ ~stored

\* C27: when a bound DualSense is dropped, the device handle is closed
\* (hid_close) before the library is finalized (hid_exit), and a failing
\* hid_exit does not abort the process.
C27_CloseBeforeExit ==
    (\E j \in DOMAIN ffi : ffi[j] = "hid_exit") =>
        /\ \E i, j \in DOMAIN ffi : i < j /\ ffi[i] = "hid_close" /\ ffi[j] = "hid_exit"
        /\ ~(ret.call = "drop" /\ ret.kind = "panic")
        /\ phase # "aborted"

=============================================================================
